---- MODULE Spec2Model ----
(***************************************************************************)
(* Synchronisation logic of the playlist manager.                          *)
(*                                                                         *)
(*   - the remote store: the three D1 tables behind /api/library and the   *)
(*     GET and PUT handlers of functions/api/library.ts;                   *)
(*   - the client: the load effect and the debounced save effect of        *)
(*     src/App.tsx with the helpers of src/utils/snapshot.ts.              *)
(*                                                                         *)
(* JavaScript objects are records; a field that is undefined is a field    *)
(* that is not in the record's DOMAIN.  A video reference inside a         *)
(* playlist payload is either a bare id string, written [string |-> id],   *)
(* or an object carrying an id field.                                      *)
(***************************************************************************)
EXTENDS Integers, Sequences, FiniteSets, TLC

\* ------------------------------------------------------------------ bounds

\* longest videos list of a playlist entry of a PUT payload
MaxRefs == 2

\* ------------------------------------------------------------- JS helpers

Has(r, f) == f \in DOMAIN r

\* r.f ?? ''
Field(r, f) == IF Has(r, f) THEN r[f] ELSE ""

\* the truthiness test  x?.id  of the handlers
HasId(r) == Has(r, "id") /\ r.id # ""

\* typeof vv === 'string' ? vv : vv?.id   (the empty string stands for a
\* falsy result: undefined or '')
RefId(vv) == IF Has(vv, "string") THEN vv.string ELSE Field(vv, "id")

Range(s) == {s[i] : i \in DOMAIN s}

SeqsUpTo(S, n) == UNION {[1..k -> S] : k \in 0..n}

\* the elements of a finite set of integers in ascending order
RECURSIVE Ascending(_)
Ascending(S) ==
  IF S = {} THEN <<>>
  ELSE LET m == CHOOSE x \in S : \A y \in S : x <= y
       IN  <<m>> \o Ascending(S \ {m})

\* --------------------------------------------------------------- the store

VARIABLES
  db,        \* the D1 database: tables videos, playlists, playlist_videos
  dbBefore,  \* the database as the last PUT found it
  lastPut,   \* the JSON body of the last PUT
  lastResp,  \* the answer to the last PUT
  lastGet,   \* the answer to the GET made since the last PUT, if any
  putRun,    \* the PUT whose handler is between two statements: its body and
             \* the statements it has still to run, or None
  getRun     \* the GET whose handler is between two statements: what its
             \* SELECTs have returned so far, or None

storeVars == <<db, dbBefore, lastPut, lastResp, lastGet, putRun, getRun>>

\* ------------------------------------------------------------- the client

VARIABLES
  videos,       \* App state: the video collection
  playlists,    \* App state: the playlists
  mounted,      \* the App component is rendered
  load,         \* the load effect: "loading" until loadRemote has answered
  remote,       \* what the fetch of loadRemote delivered
  timers,       \* the pending setTimeout callbacks of the save effect
  t,            \* the timer id held by the save effect's cleanup
  mirror,       \* localStorage[MIRROR_KEY], parsed
  lastWrite,    \* the last PUT saveRemote has issued, with its outcome
  unhandled,    \* a promise of saveRemote was rejected with nobody to catch it
  sinceChange,  \* ms since videos or playlists last changed, up to Delay
  burstLen,     \* changes less than Delay apart up to the last one (1, or 2 for more)
  burstWrites   \* remote writes issued since the last change

appVars == <<videos, playlists, mounted, load, remote, timers, t, mirror,
             lastWrite, unhandled, sinceChange, burstLen, burstWrites>>

\* ------------------------------------------------------- the App's UI state

VARIABLES
  selectedVideos,   \* App state: the selection
  currentVideo,     \* App state: the video shown by the player, or None
  currentPlaylist,  \* App state: the player's copy of the playlist played, or None
  currentIndex,     \* App state: [index |-> n], or None for null
  isPlayerOpen,     \* App state
  player,           \* VideoPlayer's playerRef: None, or the currentPlaylist and
                    \* currentIndex that the handleNext given to the YT.Player
                    \* at its creation reads
  editing,          \* PlaylistManager state: the playlist handed to the editor, or None
  isEditorOpen,     \* PlaylistManager state
  items,            \* PlaylistEditor state: the list being edited
  now,              \* the reading of Date.now()
  deletes,          \* the calls of handleDeletePlaylist waiting for their fetch
  lastDelete,       \* how the fetch of the last resumed handleDeletePlaylist ended
  lastOp            \* what handleVideoDelete or handleReorderPlaylist found, if
                    \* it was the last handler to run

playVars == <<currentVideo, currentPlaylist, currentIndex, isPlayerOpen, player>>

editorVars == <<editing, isEditorOpen, items>>

uiVars == <<selectedVideos, playVars, editorVars, now, deletes, lastDelete, lastOp>>

vars == <<storeVars, appVars, uiVars>>

None == [none |-> TRUE]

\* CREATE TABLE IF NOT EXISTS ... on a fresh database
EmptyDb == [videos |-> {}, playlists |-> {}, playlist_videos |-> {}]

VideoRow(v) ==
  [id |-> v.id, title |-> Field(v, "title"), thumbnail |-> Field(v, "thumbnail"),
   duration |-> Field(v, "duration"), channelTitle |-> Field(v, "channelTitle"),
   publishedAt |-> Field(v, "publishedAt")]

PlaylistRow(p) ==
  [id |-> p.id, name |-> Field(p, "name"), description |-> Field(p, "description"),
   createdAt |-> Field(p, "createdAt"), thumbnail |-> Field(p, "thumbnail")]

\* SELECT COUNT(*) of videos and of playlists
counts(d) == [vc |-> Cardinality(d.videos), pc |-> Cardinality(d.playlists)]

\* INSERT OR IGNORE INTO t ... (primary key id)
InsertOrIgnore(tbl, row) ==
  IF \E r \in tbl : r.id = row.id THEN tbl ELSE tbl \cup {row}

\* UPDATE t SET <all columns> WHERE id = row.id
UpdateById(tbl, row) == {IF r.id = row.id THEN row ELSE r : r \in tbl}

\* the rows  (playlist_id, video_id, position)  written for one payload entry:
\* references without an id are skipped and do not consume a position
RECURSIVE MappingRows(_, _, _)
MappingRows(pid, refs, pos) ==
  IF refs = <<>> THEN {}
  ELSE IF RefId(Head(refs)) = "" THEN MappingRows(pid, Tail(refs), pos)
  ELSE {[playlist_id |-> pid, video_id |-> RefId(Head(refs)), position |-> pos]}
         \cup MappingRows(pid, Tail(refs), pos + 1)

\* ------------------------------------------------------ PUT /api/library

\* de-dupe videos by id: the first entry of each id is kept, entries
\* without an id are dropped
DedupeVideos(vs) ==
  {vs[i] : i \in {k \in DOMAIN vs :
      /\ HasId(vs[k])
      /\ \A j \in 1..(k - 1) : ~(HasId(vs[j]) /\ vs[j].id = vs[k].id)}}

\* a plain INSERT INTO playlists meets an id that an earlier statement of
\* the batch has inserted: UNIQUE constraint failure
BatchConflict(ps) ==
  \E i, j \in DOMAIN ps :
    i < j /\ HasId(ps[i]) /\ HasId(ps[j]) /\ ps[i].id = ps[j].id

\* the tables after the statements of the replace batch: DELETE FROM all
\* three tables, then the INSERTs of the payload
ReplaceTables(vs, ps) ==
  [videos |-> {VideoRow(v) : v \in DedupeVideos(vs)},
   playlists |-> {PlaylistRow(p) : p \in {q \in Range(ps) : HasId(q)}},
   playlist_videos |->
     UNION {MappingRows(p.id, p.videos, 0) :
              p \in {q \in Range(ps) : HasId(q) /\ Has(q, "videos")}}]

\* the replace batch without its DELETE FROM videos
ReplaceKeepingVideos(d, vs, ps) ==
  IF BatchConflict(ps)
  THEN [db |-> d, resp |-> [status |-> 500, error |-> "UNIQUE constraint failed"]]
  ELSE [db |-> [ReplaceTables(vs, ps) EXCEPT
                  !.videos = @ \cup {r \in d.videos : \A n \in @ : n.id # r.id}],
        resp |-> [status |-> 200, ok |-> TRUE, mode |-> "replace"]]

\* the replace statements run one by one, outside a transaction: the DELETEs
\* and the INSERTs before the failing one stay
ReplaceNoRollback(d, vs, ps) ==
  IF BatchConflict(ps)
  THEN [db |-> ReplaceTables(vs, <<>>),
        resp |-> [status |-> 500, error |-> "UNIQUE constraint failed"]]
  ELSE [db |-> ReplaceTables(vs, ps),
        resp |-> [status |-> 200, ok |-> TRUE, mode |-> "replace"]]

\* db.batch(batch) runs the statements as one transaction: a failing
\* statement rolls everything back and the handler answers 500
Replace(d, vs, ps) ==
  IF BatchConflict(ps)
  THEN [db |-> d, resp |-> [status |-> 500, error |-> "UNIQUE constraint failed"]]
  ELSE [db |-> ReplaceTables(vs, ps),
        resp |-> [status |-> 200, ok |-> TRUE, mode |-> "replace"]]

\* merge, videos loop: INSERT OR IGNORE, then UPDATE of every column
RECURSIVE MergeVideos(_, _)
MergeVideos(tbl, vs) ==
  IF vs = <<>> THEN tbl
  ELSE IF ~HasId(Head(vs)) THEN MergeVideos(tbl, Tail(vs))
  ELSE MergeVideos(UpdateById(InsertOrIgnore(tbl, VideoRow(Head(vs))),
                              VideoRow(Head(vs))),
                   Tail(vs))

\* one playlist entry, with DELETE FROM playlist_videos lacking its WHERE
MergePlaylistDeleteAll(d, p) ==
  LET rows == UpdateById(InsertOrIgnore(d.playlists, PlaylistRow(p)), PlaylistRow(p))
  IN  [d EXCEPT
         !.playlists = rows,
         !.playlist_videos =
           IF Has(p, "videos") THEN MappingRows(p.id, p.videos, 0) ELSE @]

\* merge, one playlist entry: INSERT OR IGNORE, UPDATE of every column and,
\* if the entry has a videos array, DELETE and re-INSERT of its mapping rows
MergePlaylist(d, p) ==
  LET rows == UpdateById(InsertOrIgnore(d.playlists, PlaylistRow(p)), PlaylistRow(p))
  IN  [d EXCEPT
         !.playlists = rows,
         !.playlist_videos =
           IF Has(p, "videos")
           THEN {r \in @ : r.playlist_id # p.id} \cup MappingRows(p.id, p.videos, 0)
           ELSE @]

RECURSIVE MergePlaylists(_, _)
MergePlaylists(d, ps) ==
  IF ps = <<>> THEN d
  ELSE IF ~HasId(Head(ps)) THEN MergePlaylists(d, Tail(ps))
  ELSE MergePlaylists(MergePlaylist(d, Head(ps)), Tail(ps))

Merge(d, vs, ps) ==
  [db |-> MergePlaylists([d EXCEPT !.videos = MergeVideos(@, vs)], ps),
   resp |-> [status |-> 200, ok |-> TRUE, mode |-> "merge"]]

\* body?.mode === 'replace' ? 'replace' : 'merge'
ModeOf(body) == IF Field(body, "mode") = "replace" THEN "replace" ELSE "merge"

\* Array.isArray(body?.x) ? body.x : []
ArrayOf(body, f) == IF Has(body, f) THEN body[f] ELSE <<>>

\* the fuse with the arrays tested before they are defaulted to []
FuseMissingNotEmpty(body) ==
  /\ ModeOf(body) # "replace"
  /\ Has(body, "videos") /\ Len(body.videos) = 0
  /\ Has(body, "playlists") /\ Len(body.playlists) = 0

\* SAFETY FUSE: ignore empty overwrites unless explicit replace
FuseApplies(body) ==
  /\ ModeOf(body) # "replace"
  /\ Len(ArrayOf(body, "videos")) = 0
  /\ Len(ArrayOf(body, "playlists")) = 0

\* the handler with the fuse placed before the mode is looked at
PutOutcomeFuseAnyMode(d, body) ==
  IF Len(ArrayOf(body, "videos")) = 0 /\ Len(ArrayOf(body, "playlists")) = 0
  THEN IF counts(d).vc + counts(d).pc > 0
       THEN [db |-> d, resp |-> [status |-> 200, ok |-> FALSE, ignored |-> TRUE]]
       ELSE [db |-> d, resp |-> [status |-> 200, ok |-> TRUE, nochange |-> TRUE]]
  ELSE IF ModeOf(body) = "replace"
       THEN Replace(d, ArrayOf(body, "videos"), ArrayOf(body, "playlists"))
       ELSE Merge(d, ArrayOf(body, "videos"), ArrayOf(body, "playlists"))

PutOutcome(d, body) ==
  IF FuseApplies(body)
  THEN IF counts(d).vc + counts(d).pc > 0
       THEN [db |-> d, resp |-> [status |-> 200, ok |-> FALSE, ignored |-> TRUE]]
       ELSE [db |-> d, resp |-> [status |-> 200, ok |-> TRUE, nochange |-> TRUE]]
  ELSE IF ModeOf(body) = "replace"
       THEN Replace(d, ArrayOf(body, "videos"), ArrayOf(body, "playlists"))
       ELSE Merge(d, ArrayOf(body, "videos"), ArrayOf(body, "playlists"))

\* ------------------------------------------------------ GET /api/library

\* playlist_videos pv JOIN videos v ON v.id = pv.video_id
\* WHERE pv.playlist_id = ? ORDER BY pv.position ASC
JoinedVideos(d, pid) ==
  LET rows == {r \in d.playlist_videos :
                 r.playlist_id = pid /\ \E v \in d.videos : v.id = r.video_id}
      order == Ascending({r.position : r \in rows})
  IN  [i \in 1..Len(order) |->
         LET r == CHOOSE x \in rows : x.position = order[i]
             v == CHOOSE x \in d.videos : x.id = r.video_id
         IN  [id |-> r.video_id, title |-> v.title, thumbnail |-> v.thumbnail,
              duration |-> v.duration, channelTitle |-> v.channelTitle,
              publishedAt |-> v.publishedAt]]

\* the JSON answer; the two SELECTs have no ORDER BY, so the arrays videos
\* and playlists are given as sets of their elements
GetOutcome(d) ==
  [status |-> 200, version |-> 1,
   videos |-> d.videos,
   playlists |-> {[id |-> p.id, name |-> p.name, description |-> p.description,
                   createdAt |-> p.createdAt, thumbnail |-> p.thumbnail,
                   videos |-> JoinedVideos(d, p.id)] : p \in d.playlists}]

\* ------------------------------------------------- the requests considered

\* Video objects as the client builds them (VideoInput), one with most
\* fields missing, one without an id
VideoA ==
  [id |-> "a", title |-> "A", thumbnail |-> "a.jpg", duration |-> "Unknown",
   channelTitle |-> "chan", publishedAt |-> "2024-01-01", url |-> "https://youtu.be/a"]
VideoB ==
  [id |-> "b", title |-> "B", thumbnail |-> "b.jpg", duration |-> "Unknown",
   channelTitle |-> "chan", publishedAt |-> "2024-01-02", url |-> "https://youtu.be/b"]
VideoC ==
  [id |-> "c", title |-> "C", thumbnail |-> "c.jpg", duration |-> "Unknown",
   channelTitle |-> "chan", publishedAt |-> "2024-01-03", url |-> "https://youtu.be/c"]
VideoBare == [id |-> "a", title |-> "A2"]
VideoNoId == [title |-> "?"]

\* the videos arrays of the payloads
PayloadVideoLists ==
  {<<>>, <<VideoA, VideoB>>, <<VideoBare, VideoA>>, <<VideoNoId, VideoB>>}

\* references to videos inside a playlist entry: a bare id or an object;
\* one list holds an object without id
Refs == {[string |-> "a"], VideoB}

RefLists == SeqsUpTo(Refs, MaxRefs) \cup {<<VideoNoId, [string |-> "a"]>>}

\* playlist entries: mapping only (savePlaylistMapping), the whole object
\* (saveRemote), the object without its videos, and an entry without id
MappingEntry(id, refs) == [id |-> id, videos |-> refs]
FullEntry(id, refs) ==
  [id |-> id, name |-> "Mix", description |-> "d", createdAt |-> "2024-02-01",
   thumbnail |-> "a.jpg", videos |-> refs]
MetaEntry(id) ==
  [id |-> id, name |-> "Mix", description |-> "d", createdAt |-> "2024-02-01",
   thumbnail |-> "a.jpg"]
EntryNoId == [name |-> "?", videos |-> <<[string |-> "a"]>>]

\* playlists arrays as saveRemote sends them: whole playlist objects
SnapshotPlaylistLists ==
       {<<>>}
  \cup {<<FullEntry("p", l)>> : l \in RefLists}
  \cup {<<FullEntry("p", l), FullEntry("q", <<VideoB>>)>> : l \in RefLists}

\* playlists arrays of partial writes
PatchPlaylistLists ==
       {<<MappingEntry("p", l)>> : l \in RefLists}
  \cup {<<MappingEntry("q", <<>>)>>, <<MappingEntry("q", <<[string |-> "a"]>>)>>,
        <<MetaEntry("p")>>, <<MetaEntry("q"), EntryNoId>>,
        <<FullEntry("q", <<VideoB>>), MappingEntry("q", <<>>)>>}

\* the JSON bodies: saveRemote sends no mode (an older build sends
\* mode:'replace'), savePlaylistMapping sends mode:'merge' and playlists
\* only; the rest are bodies with fields missing
PutBodies ==
       {[version |-> 1, videos |-> v, playlists |-> p] :
          v \in PayloadVideoLists, p \in SnapshotPlaylistLists}
  \cup {[version |-> 1, mode |-> "replace", videos |-> v, playlists |-> p] :
          v \in PayloadVideoLists, p \in SnapshotPlaylistLists}
  \cup {[version |-> 1, mode |-> "merge", playlists |-> p] : p \in PatchPlaylistLists}
  \cup {[version |-> 1, mode |-> "replace", playlists |-> p] : p \in PatchPlaylistLists}
  \cup {[version |-> 1], [version |-> 1, mode |-> "merge"], [version |-> 1, mode |-> "replace"],
        [version |-> 1, mode |-> "merge", videos |-> <<>>, playlists |-> <<>>]}

\* ------------------------------------------------------------ the actions

\* the client is not part of the store's specification
AppAbsent ==
  /\ videos = <<>> /\ playlists = <<>> /\ mounted = FALSE
  /\ load = "done" /\ remote = None /\ timers = {} /\ t = 0
  /\ mirror = None /\ lastWrite = None /\ unhandled = FALSE
  /\ sinceChange = 0 /\ burstLen = 0 /\ burstWrites = 0
  /\ selectedVideos = <<>> /\ currentVideo = None /\ currentPlaylist = None
  /\ currentIndex = None /\ isPlayerOpen = FALSE /\ player = None
  /\ editing = None /\ isEditorOpen = FALSE /\ items = <<>>
  /\ now = 0 /\ deletes = {} /\ lastDelete = None /\ lastOp = None

InitStore ==
  /\ AppAbsent
  /\ db = EmptyDb
  /\ dbBefore = EmptyDb
  /\ lastPut = None
  /\ lastResp = None
  /\ lastGet = None
  /\ putRun = None /\ getRun = None

\* PUT /api/library, the whole handler
onRequestPut ==
  /\ lastPut = None
  /\ lastGet = None
  /\ \E body \in PutBodies :
       /\ dbBefore' = db
       /\ lastPut' = body
       /\ db' = PutOutcome(db, body).db
       /\ lastResp' = PutOutcome(db, body).resp
       /\ UNCHANGED <<lastGet, putRun, getRun, appVars, uiVars>>

\* GET /api/library, the whole handler
onRequestGet ==
  /\ lastGet = None
  /\ lastGet' = GetOutcome(db)
  /\ UNCHANGED <<db, dbBefore, lastPut, lastResp, putRun, getRun, appVars, uiVars>>

\* the answers have been sent: the exchange is over
ResponseSent ==
  /\ lastPut # None \/ lastGet # None
  /\ lastPut' = None
  /\ lastResp' = None
  /\ lastGet' = None
  /\ dbBefore' = db
  /\ UNCHANGED <<db, putRun, getRun, appVars, uiVars>>

NextStore == onRequestPut \/ onRequestGet \/ ResponseSent

Spec == InitStore /\ [][NextStore]_vars

\* ================================================================ the App

\* the delay of the save effect's setTimeout, in ms
Delay == 300

\* time passes in steps of Step ms
Step == 150

Min(a, b) == IF a < b THEN a ELSE b
Max(a, b) == IF a < b THEN b ELSE a

\* the arrays a SELECT without ORDER BY can return for a set of rows
Arrays(S) == {a \in [1..Cardinality(S) -> S] : Range(a) = S}

\* a Playlist object holding one video
PlaylistQ ==
  [id |-> "q", name |-> "Mix", description |-> "d", videos |-> <<VideoB>>,
   createdAt |-> "2024-02-01", thumbnail |-> "b.jpg"]

\* JSON.stringify({ version: 1, updatedAt, videos, playlists }) as
\* JSON.parse gives it back (the timestamp, which nothing reads, is left out)
MirrorBlob(vs, ps) == [version |-> 1, videos |-> vs, playlists |-> ps]

\* what useLocalStorage('videos', []) and useLocalStorage('playlists', [])
\* hold when the App mounts
LocalCaches ==
  {[videos |-> <<>>, playlists |-> <<>>], [videos |-> <<VideoA>>, playlists |-> <<>>]}

\* an item under MIRROR_KEY that JSON.parse rejects
Unparsable == [unparsable |-> TRUE]

\* what can be found under MIRROR_KEY at mount: nothing, the blob of an
\* earlier session, or something else
MirrorsAtStart == {None, MirrorBlob(<<VideoB>>, <<PlaylistQ>>), Unparsable}

\* stores the GET is answered from
StoreFull ==
  ReplaceTables(<<VideoA, VideoB>>, <<FullEntry("p", <<[string |-> "a"], VideoB>>)>>)
StorePlaylistOnly == ReplaceTables(<<>>, <<FullEntry("q", <<>>)>>)

GetBodies(d) ==
  {[version |-> 1, videos |-> vs, playlists |-> ps] :
     vs \in Arrays(GetOutcome(d).videos), ps \in Arrays(GetOutcome(d).playlists)}

\* what fetch(REMOTE_URL) can deliver: a rejected promise, a non-2xx
\* answer, a body that is no JSON, the handler's answers, and 200 answers
\* lacking an array
Replies ==
       {[kind |-> "network_error"],
        [kind |-> "response", ok |-> FALSE, json |-> [error |-> "Missing D1 binding"]],
        [kind |-> "response", ok |-> TRUE]}
  \cup {[kind |-> "response", ok |-> TRUE, json |-> b] :
          b \in GetBodies(EmptyDb) \cup GetBodies(StoreFull) \cup GetBodies(StorePlaylistOnly)}
  \cup {[kind |-> "response", ok |-> TRUE, json |-> b] :
          b \in {[version |-> 1],
                 [version |-> 1, videos |-> <<>>],
                 [version |-> 1, playlists |-> <<PlaylistQ>>],
                 [version |-> 1, videos |-> <<VideoA>>]}}

\* loadRemote(): null on a network error, a non-2xx status or a body that
\* does not parse, the parsed body otherwise
loadRemote(reply) ==
  IF reply.kind = "network_error" THEN None
  ELSE IF ~reply.ok THEN None
  ELSE IF ~Has(reply, "json") THEN None
  ELSE reply.json

\* readMirrorFromLocalStorage(): raw ? JSON.parse(raw) : null, and null
\* when JSON.parse throws
readMirrorFromLocalStorage(m) ==
  IF m = None THEN None
  ELSE IF Has(m, "unparsable") THEN None
  ELSE [version |-> m.version, videos |-> m.videos, playlists |-> m.playlists]

\* the load effect with the mirror consulted first
LoadEffectMirrorFirst(rem, mir) ==
  IF mir # None
  THEN [branch |-> "mirror", videos |-> mir.videos, playlists |-> mir.playlists]
  ELSE IF rem # None /\ Has(rem, "videos") /\ Has(rem, "playlists")
            /\ (Len(rem.videos) # 0 \/ Len(rem.playlists) # 0)
       THEN [branch |-> "remote", videos |-> rem.videos, playlists |-> rem.playlists]
       ELSE [branch |-> "none"]

\* the body of the load effect after  remote = await loadRemote():
\* the branch taken and the values handed to setVideos and setPlaylists.
\* Reading .length of a missing array throws; the catch logs and ends the
\* effect.
LoadEffect(rem, mir) ==
  LET fromMirror ==
        IF mir # None
        THEN [branch |-> "mirror", videos |-> mir.videos, playlists |-> mir.playlists]
        ELSE [branch |-> "none"]
  IN  IF rem = None THEN fromMirror
      ELSE IF ~Has(rem, "videos") THEN [branch |-> "threw"]
      ELSE IF Len(rem.videos) # 0
           THEN IF Has(rem, "playlists")
                THEN [branch |-> "remote", videos |-> rem.videos, playlists |-> rem.playlists]
                ELSE [branch |-> "remote", videos |-> rem.videos]
      ELSE IF ~Has(rem, "playlists") THEN [branch |-> "threw"]
      ELSE IF Len(rem.playlists) # 0
           THEN [branch |-> "remote", videos |-> rem.videos, playlists |-> rem.playlists]
      ELSE fromMirror

\* setTimeout returns an id that no pending timer has
NewTimerId(tms, tid) ==
  CHOOSE n \in 0..(Cardinality(tms) + 1) : n # tid /\ \A tm \in tms : tm.id # n

\* the save effect without  return () => clearTimeout(t)
SaveEffectNoCleanup(tms, tid, mir, vs, ps) ==
  [timers |-> tms \cup {[id |-> NewTimerId(tms, tid), remaining |-> Delay,
                         videos |-> vs, playlists |-> ps]},
   t |-> NewTimerId(tms, tid),
   mirror |-> mir]

\* the save effect with mirrorToLocalStorage called outside the timeout
SaveEffectMirrorNow(tms, tid, mir, vs, ps) ==
  LET kept == {tm \in tms : tm.id # tid}
  IN  [timers |-> kept \cup {[id |-> NewTimerId(kept, tid), remaining |-> Delay,
                              videos |-> vs, playlists |-> ps]},
       t |-> NewTimerId(kept, tid),
       mirror |-> MirrorBlob(vs, ps)]

\* the save effect when videos or playlists have changed: the cleanup of
\* the previous run clears its timer, then a timer is set whose callback
\* holds the new videos and playlists; localStorage is not touched
SaveEffect(tms, tid, mir, vs, ps) ==
  LET kept == {tm \in tms : tm.id # tid}
  IN  [timers |-> kept \cup {[id |-> NewTimerId(kept, tid), remaining |-> Delay,
                              videos |-> vs, playlists |-> ps]},
       t |-> NewTimerId(kept, tid),
       mirror |-> mir]

\* saveRemote: the body of the PUT
saveRemote(vs, ps) == [version |-> 1, videos |-> vs, playlists |-> ps]

PutFates == {"ok", "http_error", "network_error"}

\* saveRemote without its try/catch
saveRemoteUncaught(fate) == IF fate = "network_error" THEN "rejected" ELSE "fulfilled"

\* how the promise of saveRemote settles: a rejected fetch is caught and
\* dropped, the status of an answer is not looked at
saveRemoteSettled(fate) == "fulfilled"

\* a render with new videos and playlists, and the save effect after it
Commit(vs, ps) ==
  /\ videos' = vs
  /\ playlists' = ps
  /\ timers' = SaveEffect(timers, t, mirror, vs, ps).timers
  /\ t' = SaveEffect(timers, t, mirror, vs, ps).t
  /\ mirror' = SaveEffect(timers, t, mirror, vs, ps).mirror
  /\ burstLen' = IF sinceChange < Delay THEN Min(2, burstLen + 1) ELSE 1
  /\ sinceChange' = 0
  /\ burstWrites' = 0

\* the server is seen through fetch only
StoreAbsent ==
  /\ db = EmptyDb /\ dbBefore = EmptyDb
  /\ lastPut = None /\ lastResp = None /\ lastGet = None
  /\ putRun = None /\ getRun = None

\* the initial values of the useState calls of App, PlaylistManager and
\* PlaylistEditor
UiAtMount ==
  /\ selectedVideos = <<>> /\ currentVideo = None /\ currentPlaylist = None
  /\ currentIndex = None /\ isPlayerOpen = FALSE /\ player = None
  /\ editing = None /\ isEditorOpen = FALSE /\ items = <<>>
  /\ now = 0 /\ deletes = {} /\ lastDelete = None /\ lastOp = None

\* the App after mount: both effects have run once, the GET is in flight
InitApp ==
  /\ \E c \in LocalCaches : videos = c.videos /\ playlists = c.playlists
  /\ mirror \in MirrorsAtStart
  /\ mounted = TRUE
  /\ load = "loading"
  /\ remote = None
  /\ t = 0
  /\ timers = {[id |-> 0, remaining |-> Delay, videos |-> videos, playlists |-> playlists]}
  /\ lastWrite = None
  /\ unhandled = FALSE
  /\ sinceChange = 0
  /\ burstLen = 1
  /\ burstWrites = 0
  /\ UiAtMount
  /\ StoreAbsent

\* the load effect resumes with what the fetch of loadRemote delivered
LoadSettlesWith(reply) ==
  /\ mounted /\ load = "loading"
  /\ LET r == LoadEffect(loadRemote(reply), readMirrorFromLocalStorage(mirror))
     IN  /\ remote' = reply
         /\ load' = r.branch
         /\ \/ /\ r.branch \in {"none", "threw"}
               /\ UNCHANGED <<videos, playlists, mounted, timers, t, mirror,
                              sinceChange, burstLen, burstWrites>>
            \/ /\ r.branch \in {"remote", "mirror"} /\ Has(r, "playlists")
               /\ Commit(r.videos, r.playlists)
               /\ UNCHANGED mounted
            \/ \* setPlaylists(undefined): PlaylistManager reads
               \* playlists.length while rendering, the tree unmounts and
               \* the effect's cleanup runs
               /\ r.branch = "remote" /\ ~Has(r, "playlists")
               /\ mounted' = FALSE
               /\ videos' = <<>> /\ playlists' = <<>>
               /\ timers' = {tm \in timers : tm.id # t}
               /\ UNCHANGED <<t, mirror, sinceChange, burstLen, burstWrites>>
  /\ UNCHANGED <<lastWrite, unhandled, storeVars, uiVars>>

\* the load effect, the server being any server
LoadSettles == \E reply \in Replies : LoadSettlesWith(reply)

\* handleVideoAdd: a video whose id is in the collection leaves it as it is
handleVideoAdd ==
  /\ mounted
  /\ \E video \in {VideoA, VideoB} :
       IF \E i \in DOMAIN videos : videos[i].id = video.id
       THEN UNCHANGED <<videos, playlists, timers, t, mirror, sinceChange,
                        burstLen, burstWrites>>
       ELSE Commit(Append(videos, video), playlists)
  /\ UNCHANGED <<mounted, load, remote, lastWrite, unhandled, storeVars, uiVars>>

Without(vs, id) == SelectSeq(vs, LAMBDA v : v.id # id)

\* the four useState values of the player
Playback ==
  [currentVideo |-> currentVideo, currentPlaylist |-> currentPlaylist,
   currentIndex |-> currentIndex, isPlayerOpen |-> isPlayerOpen]

\* the effects of VideoPlayer after a render, the iframe API being loaded:
\* the init effect makes a YT.Player if the player is open with a video and
\* there is none yet, and hands the video to the one there is otherwise;
\* the destroy effect destroys it and clears the ref when isOpen is false
VideoPlayerEffects(ref, play) ==
  IF ~play.isPlayerOpen THEN None
  ELSE IF play.currentVideo = None THEN ref
  ELSE IF ref # None THEN ref
  ELSE [currentPlaylist |-> play.currentPlaylist, currentIndex |-> play.currentIndex]

\* the setters of the player's state, the render and VideoPlayer's effects
SetPlayback(play) ==
  /\ currentVideo' = play.currentVideo
  /\ currentPlaylist' = play.currentPlaylist
  /\ currentIndex' = play.currentIndex
  /\ isPlayerOpen' = play.isPlayerOpen
  /\ player' = VideoPlayerEffects(player, play)

\* setIsPlayerOpen(false); setCurrentVideo(null); setCurrentPlaylist(null);
\* setCurrentIndex(null)
Cleared ==
  [currentVideo |-> None, currentPlaylist |-> None, currentIndex |-> None,
   isPlayerOpen |-> FALSE]

Playing(play, id) == play.currentVideo # None /\ play.currentVideo.id = id

\* handleVideoDelete, the player going on to the item after the deleted one
PlaybackAdvancingOnDelete(play, video) ==
  IF ~Playing(play, video.id) THEN play
  ELSE IF play.currentPlaylist = None \/ play.currentIndex = None THEN Cleared
  ELSE LET rest == Without(play.currentPlaylist.videos, video.id)
           i == Min(play.currentIndex.index + 1, Len(rest))
       IN  IF rest = <<>> THEN Cleared
           ELSE [play EXCEPT !.currentPlaylist = [@ EXCEPT !.videos = rest],
                             !.currentIndex = [index |-> i - 1],
                             !.currentVideo = rest[i]]

\* handleVideoDelete, the player: closed and cleared if the deleted video
\* is the one shown, left as it is otherwise
PlaybackAfterDelete(play, video) ==
  IF Playing(play, video.id) THEN Cleared ELSE play

\* the playlists with a video taken out of each; handleVideoDelete with
\* the filter applied to the first playlist only
PlaylistsWithoutFirstOnly(ps, id) ==
  [k \in DOMAIN ps |-> IF k = 1 THEN [ps[k] EXCEPT !.videos = Without(@, id)] ELSE ps[k]]

\* prev.map(p => ({ ...p, videos: p.videos.filter(v => v.id !== video.id) }))
PlaylistsWithout(ps, id) ==
  [k \in DOMAIN ps |-> [ps[k] EXCEPT !.videos = Without(@, id)]]

\* handleVideoDelete(video)
VideoDelete(video) ==
  /\ Commit(Without(videos, video.id), PlaylistsWithout(playlists, video.id))
  /\ selectedVideos' = Without(selectedVideos, video.id)
  /\ SetPlayback(PlaybackAfterDelete(Playback, video))
  /\ lastOp' = [op |-> "delete", playing |-> Playing(Playback, video.id),
                rest |-> /\ currentPlaylist # None
                         /\ Without(currentPlaylist.videos, video.id) # <<>>]
  /\ UNCHANGED <<mounted, load, remote, lastWrite, unhandled, storeVars,
                 editorVars, now, deletes, lastDelete>>

\* handleVideoDelete of a card of VideoCollection
handleVideoDelete == mounted /\ \E i \in DOMAIN videos : VideoDelete(videos[i])

\* Step ms pass; a timer that is due runs before more time passes
Tick ==
  /\ \A tm \in timers : tm.remaining > 0
  /\ timers' = {[tm EXCEPT !.remaining = Max(0, @ - Step)] : tm \in timers}
  /\ sinceChange' = Min(Delay, sinceChange + Step)
  /\ UNCHANGED <<videos, playlists, mounted, load, remote, t, mirror, lastWrite,
                 unhandled, burstLen, burstWrites, storeVars, uiVars>>

\* the callback of the save effect's timer: saveRemote is called and
\* returns its promise, then mirrorToLocalStorage writes the blob
TimerFires ==
  /\ \E tm \in timers :
       /\ tm.remaining = 0
       /\ timers' = timers \ {tm}
       /\ lastWrite' = [body |-> saveRemote(tm.videos, tm.playlists), outcome |-> "pending"]
       /\ mirror' = MirrorBlob(tm.videos, tm.playlists)
  /\ burstWrites' = Min(2, burstWrites + 1)
  /\ UNCHANGED <<videos, playlists, mounted, load, remote, t, unhandled,
                 sinceChange, burstLen, storeVars, uiVars>>

\* the fetch of the last saveRemote completes
saveRemoteSettles ==
  /\ lastWrite # None /\ lastWrite.outcome = "pending"
  /\ \E fate \in PutFates :
       /\ lastWrite' = [lastWrite EXCEPT !.outcome = fate]
       /\ unhandled' = (unhandled \/ saveRemoteSettled(fate) = "rejected")
  /\ UNCHANGED <<videos, playlists, mounted, load, remote, timers, t, mirror,
                 sinceChange, burstLen, burstWrites, storeVars, uiVars>>

NextApp ==
  \/ LoadSettles
  \/ handleVideoAdd
  \/ handleVideoDelete
  \/ Tick
  \/ TimerFires
  \/ saveRemoteSettles

SpecApp == InitApp /\ [][NextApp]_vars

\* --------------------------------------------------- the App's UI handlers

\* most playlists the collection is let grow to
MaxPlaylists == 2

\* most calls of handleDeletePlaylist waiting for their answer
MaxDeleteCalls == 1

\* last reading of the clock
MaxClock == 1

\* a handler that sets neither videos nor playlists
NoCommit ==
  /\ UNCHANGED <<videos, playlists, mounted, load, remote, timers, t, mirror,
                 lastWrite, unhandled, sinceChange, burstLen, burstWrites, storeVars>>
  /\ lastOp' = None

\* what is left unchanged besides the values Commit sets
CommitOnly == UNCHANGED <<mounted, load, remote, lastWrite, unhandled, storeVars>>

\* the clock goes on
ClockTick ==
  /\ now < MaxClock
  /\ now' = now + 1
  /\ NoCommit
  /\ UNCHANGED <<selectedVideos, playVars, editorVars, deletes, lastDelete>>

\* [...prev, video] without the test
AddAlways(vs, video) == Append(vs, video)

\* prev.some(v => v.id === video.id) ? prev : [...prev, video]
AddDistinct(vs, video) ==
  IF \E i \in DOMAIN vs : vs[i].id = video.id THEN vs ELSE Append(vs, video)

\* handleVideoSelect of a card of VideoCollection
handleVideoSelect ==
  /\ mounted
  /\ \E i \in DOMAIN videos : selectedVideos' = AddDistinct(selectedVideos, videos[i])
  /\ NoCommit
  /\ UNCHANGED <<playVars, editorVars, now, deletes, lastDelete>>

\* handleVideoDeselect of a card of VideoCollection
handleVideoDeselect ==
  /\ mounted
  /\ \E i \in DOMAIN videos : selectedVideos' = Without(selectedVideos, videos[i].id)
  /\ NoCommit
  /\ UNCHANGED <<playVars, editorVars, now, deletes, lastDelete>>

\* id: Date.now().toString()
NewId(clock) == ToString(clock)

\* the Playlist object of handleCreatePlaylist
NewPlaylist(name, description, vids, clock) ==
  LET base == [id |-> NewId(clock), name |-> name, description |-> description,
               videos |-> vids, createdAt |-> ToString(clock)]
  IN  IF vids # <<>> /\ Has(vids[1], "thumbnail")
      THEN [x \in DOMAIN base \cup {"thumbnail"} |->
              IF x = "thumbnail" THEN vids[1].thumbnail ELSE base[x]]
      ELSE base

\* canCreate of PlaylistManager
canCreate(name) == Len(selectedVideos) > 0 /\ name # ""

\* handleCreate of PlaylistManager: handleCreatePlaylist with the trimmed
\* inputs and the selection, then handleClearSelection
handleCreate ==
  /\ mounted
  /\ Len(playlists) < MaxPlaylists
  /\ \E name \in {"Mix"} :
       /\ canCreate(name)
       /\ Commit(videos, Append(playlists, NewPlaylist(name, "", selectedVideos, now)))
  /\ selectedVideos' = <<>>
  /\ lastOp' = None
  /\ CommitOnly
  /\ UNCHANGED <<playVars, editorVars, now, deletes, lastDelete>>

\* openEditor(p) of PlaylistManager; PlaylistEditor takes its items from
\* the playlist when it mounts and when another playlist is handed to it
openEditor ==
  /\ mounted
  /\ \E k \in DOMAIN playlists :
       /\ editing' = playlists[k]
       /\ items' = IF editing # None /\ editing.id = playlists[k].id
                   THEN items ELSE playlists[k].videos
  /\ isEditorOpen' = TRUE
  /\ NoCommit
  /\ UNCHANGED <<selectedVideos, playVars, now, deletes, lastDelete>>

\* closeEditor of PlaylistManager: the editor unmounts
closeEditor ==
  /\ mounted /\ editing # None
  /\ editing' = None /\ isEditorOpen' = FALSE /\ items' = <<>>
  /\ NoCommit
  /\ UNCHANGED <<selectedVideos, playVars, now, deletes, lastDelete>>

\* arrayMove of @dnd-kit/sortable, positions counted from 1
arrayMove(list, from, to) ==
  LET rest == SubSeq(list, 1, from - 1) \o SubSeq(list, from + 1, Len(list))
  IN  SubSeq(rest, 1, to - 1) \o <<list[from]>> \o SubSeq(rest, to, Len(rest))

\* handleDragEnd of PlaylistEditor: a row dropped on another row
handleDragEnd ==
  /\ mounted /\ editing # None /\ isEditorOpen
  /\ \E from, to \in DOMAIN items :
       /\ from # to
       /\ items' = arrayMove(items, from, to)
  /\ NoCommit
  /\ UNCHANGED <<selectedVideos, playVars, editing, isEditorOpen, now, deletes, lastDelete>>

\* handleRemove of PlaylistEditor
handleRemove ==
  /\ mounted /\ editing # None /\ isEditorOpen
  /\ \E i \in DOMAIN items : items' = Without(items, items[i].id)
  /\ NoCommit
  /\ UNCHANGED <<selectedVideos, playVars, editing, isEditorOpen, now, deletes, lastDelete>>

\* findIndex, counted from 0; -1 if there is none
findIndex(vs, id) ==
  IF \E i \in DOMAIN vs : vs[i].id = id
  THEN (CHOOSE i \in DOMAIN vs : vs[i].id = id /\ \A j \in 1..(i - 1) : vs[j].id # id) - 1
  ELSE -1

\* handleReorderPlaylist, the player left as it is
ReorderPlaybackUntouched(play, id, newOrder) == play

\* handleReorderPlaylist, the player: the copy of the playlist takes the
\* new order and the index follows the current video
ReorderPlayback(play, id, newOrder) ==
  IF play.currentPlaylist # None /\ play.currentPlaylist.id = id
  THEN [play EXCEPT
          !.currentPlaylist = [@ EXCEPT !.videos = newOrder],
          !.currentIndex =
            IF play.currentVideo # None
            THEN IF findIndex(newOrder, play.currentVideo.id) # -1
                 THEN [index |-> findIndex(newOrder, play.currentVideo.id)]
                 ELSE IF Len(newOrder) # 0 THEN [index |-> 0] ELSE None
            ELSE IF Len(newOrder) # 0 THEN [index |-> 0] ELSE None,
          !.currentVideo =
            IF play.currentVideo # None
            THEN IF findIndex(newOrder, play.currentVideo.id) # -1
                 THEN @
                 ELSE IF Len(newOrder) # 0 THEN newOrder[1] ELSE None
            ELSE IF Len(newOrder) # 0 THEN newOrder[1] ELSE @]
  ELSE play

\* prev.map(p => (p.id === id ? { ...p, videos: newOrder } : p))
WithOrder(ps, id, newOrder) ==
  [k \in DOMAIN ps |-> IF ps[k].id = id THEN [ps[k] EXCEPT !.videos = newOrder] ELSE ps[k]]

\* handleSave of PlaylistEditor: saveEditor calls handleReorderPlaylist
\* with the editor's items and closes the editor
handleSave ==
  /\ mounted /\ editing # None /\ isEditorOpen
  /\ Commit(videos, WithOrder(playlists, editing.id, items))
  /\ SetPlayback(ReorderPlayback(Playback, editing.id, items))
  /\ editing' = None /\ isEditorOpen' = FALSE /\ items' = <<>>
  /\ lastOp' = [op |-> "reorder",
                playing |-> /\ currentPlaylist # None /\ currentPlaylist.id = editing.id
                            /\ currentVideo # None,
                rest |-> /\ currentVideo # None
                         /\ findIndex(items, currentVideo.id) # -1]
  /\ CommitOnly
  /\ UNCHANGED <<selectedVideos, now, deletes, lastDelete>>

\* a single video played as a playlist of one item
VideoPlayAsPlaylist(video) ==
  [currentVideo |-> video,
   currentPlaylist |-> [id |-> "single", name |-> "", description |-> "",
                        videos |-> <<video>>, createdAt |-> ""],
   currentIndex |-> [index |-> 0], isPlayerOpen |-> TRUE]

\* setCurrentVideo(video); setCurrentPlaylist(null); setCurrentIndex(null);
\* setIsPlayerOpen(true)
VideoPlay(video) ==
  [currentVideo |-> video, currentPlaylist |-> None,
   currentIndex |-> None, isPlayerOpen |-> TRUE]

\* handleVideoPlay of a card of VideoCollection
handleVideoPlay ==
  /\ mounted
  /\ \E i \in DOMAIN videos :
       /\ SetPlayback(VideoPlay(videos[i]))
       /\ lastOp' = [op |-> "play", id |-> videos[i].id]
  /\ UNCHANGED <<videos, playlists, mounted, load, remote, timers, t, mirror,
                 lastWrite, unhandled, sinceChange, burstLen, burstWrites, storeVars>>
  /\ UNCHANGED <<selectedVideos, editorVars, now, deletes, lastDelete>>

\* handlePlaylistPlay of a row of PlaylistManager
handlePlaylistPlay ==
  /\ mounted
  /\ \E k \in DOMAIN playlists :
       /\ Len(playlists[k].videos) > 0
       /\ SetPlayback([currentVideo |-> playlists[k].videos[1],
                       currentPlaylist |-> playlists[k],
                       currentIndex |-> [index |-> 0], isPlayerOpen |-> TRUE])
  /\ NoCommit
  /\ UNCHANGED <<selectedVideos, editorVars, now, deletes, lastDelete>>

\* handleNext going round to the first item after the last
NextWrapping(play) ==
  IF play.currentPlaylist # None /\ play.currentIndex # None
     /\ Len(play.currentPlaylist.videos) > 0
  THEN LET next == (play.currentIndex.index + 1) % Len(play.currentPlaylist.videos)
       IN  [play EXCEPT !.currentIndex = [index |-> next],
                        !.currentVideo = play.currentPlaylist.videos[next + 1]]
  ELSE play

\* handleNext
NextItem(play) ==
  IF /\ play.currentPlaylist # None /\ play.currentIndex # None
     /\ play.currentIndex.index < Len(play.currentPlaylist.videos) - 1
  THEN LET next == play.currentIndex.index + 1
       IN  [play EXCEPT !.currentIndex = [index |-> next],
                        !.currentVideo = play.currentPlaylist.videos[next + 1]]
  ELSE play

\* handlePrevious
PreviousItem(play) ==
  IF /\ play.currentPlaylist # None /\ play.currentIndex # None
     /\ play.currentIndex.index > 0
  THEN LET prev == play.currentIndex.index - 1
       IN  [play EXCEPT !.currentIndex = [index |-> prev],
                        !.currentVideo = play.currentPlaylist.videos[prev + 1]]
  ELSE play

\* the Next button of VideoPlayer
handleNext ==
  /\ mounted /\ isPlayerOpen /\ currentVideo # None
  /\ SetPlayback(NextItem(Playback))
  /\ NoCommit
  /\ UNCHANGED <<selectedVideos, editorVars, now, deletes, lastDelete>>

\* the Previous button of VideoPlayer
handlePrevious ==
  /\ mounted /\ isPlayerOpen /\ currentVideo # None
  /\ SetPlayback(PreviousItem(Playback))
  /\ NoCommit
  /\ UNCHANGED <<selectedVideos, editorVars, now, deletes, lastDelete>>

\* the handleNext that the YT.Player was given when it was made: it reads
\* the currentPlaylist and currentIndex of that render and calls the setters
\* of the index and the video
EndedStale(ref, play) ==
  LET then == [play EXCEPT !.currentPlaylist = ref.currentPlaylist,
                           !.currentIndex = ref.currentIndex]
      next == NextItem(then)
  IN  IF next = then THEN play
      ELSE [play EXCEPT !.currentIndex = next.currentIndex,
                        !.currentVideo = next.currentVideo]

\* most end events in a row
MaxEnds == 3

\* the end events since the last other handler, this one included
EndsInARow == IF lastOp # None /\ lastOp.op = "ended" THEN lastOp.k + 1 ELSE 1

\* onStateChange of the YT.Player with the state ENDED: onNext()
onEnded ==
  /\ mounted /\ isPlayerOpen /\ currentVideo # None /\ player # None
  /\ EndsInARow <= MaxEnds
  /\ SetPlayback(EndedStale(player, Playback))
  /\ UNCHANGED <<videos, playlists, mounted, load, remote, timers, t, mirror,
                 lastWrite, unhandled, sinceChange, burstLen, burstWrites, storeVars>>
  /\ lastOp' = [op |-> "ended", k |-> EndsInARow,
                start |-> IF EndsInARow = 1 THEN currentIndex ELSE lastOp.start]
  /\ UNCHANGED <<selectedVideos, editorVars, now, deletes, lastDelete>>

\* onClose of VideoPlayer: setIsPlayerOpen(false)
onClose ==
  /\ mounted /\ isPlayerOpen /\ currentVideo # None
  /\ SetPlayback([Playback EXCEPT !.isPlayerOpen = FALSE])
  /\ NoCommit
  /\ UNCHANGED <<selectedVideos, editorVars, now, deletes, lastDelete>>

\* handleDeletePlaylist up to its await: the DELETE is sent; the call
\* keeps the currentPlaylist of the render it was made in
handleDeletePlaylist ==
  /\ mounted /\ Cardinality(deletes) < MaxDeleteCalls
  /\ \E k \in DOMAIN playlists :
       deletes' = deletes \cup
         {[id |-> playlists[k].id,
           playing |-> (currentPlaylist # None /\ currentPlaylist.id = playlists[k].id)]}
  /\ NoCommit
  /\ UNCHANGED <<selectedVideos, playVars, editorVars, now, lastDelete>>

DeleteFates == {"ok", "http_error", "network_error"}

\* handleDeletePlaylist after its await, the answer not looked at
AfterDeleteAlways(call, fate, ps, play) ==
  [playlists |-> SelectSeq(ps, LAMBDA q : q.id # call.id),
   play |-> IF call.playing THEN Cleared ELSE play,
   changed |-> TRUE]

\* handleDeletePlaylist after its await: a failed fetch or a non-2xx
\* status ends the call; otherwise the playlist is filtered out and the
\* player is cleared if it was playing this playlist when the call was made
AfterDelete(call, fate, ps, play) ==
  IF fate # "ok"
  THEN [playlists |-> ps, play |-> play, changed |-> FALSE]
  ELSE [playlists |-> SelectSeq(ps, LAMBDA q : q.id # call.id),
        play |-> IF call.playing THEN Cleared ELSE play,
        changed |-> TRUE]

\* the DELETE of a call of handleDeletePlaylist is answered or fails, and
\* the call resumes
DeleteSettles ==
  /\ mounted
  /\ \E call \in deletes : \E fate \in DeleteFates :
       LET r == AfterDelete(call, fate, playlists, Playback)
       IN  /\ deletes' = deletes \ {call}
           /\ lastDelete' = [fate |-> fate]
           /\ SetPlayback(r.play)
           /\ IF r.changed
              THEN Commit(videos, r.playlists)
              ELSE UNCHANGED <<videos, playlists, timers, t, mirror, sinceChange,
                               burstLen, burstWrites>>
  /\ lastOp' = None
  /\ CommitOnly
  /\ UNCHANGED <<selectedVideos, editorVars, now>>

\* ------------------------------------------------ the App after its start

\* the App right after a start without network in which the load effect
\* has adopted the mirror: the save effect has run again and its timer is
\* pending
Started(vs, ps) ==
  /\ videos = vs /\ playlists = ps
  /\ mounted = TRUE
  /\ load = "mirror"
  /\ remote = [kind |-> "network_error"]
  /\ mirror = MirrorBlob(vs, ps)
  /\ timers = {[id |-> 1, remaining |-> Delay, videos |-> vs, playlists |-> ps]}
  /\ t = 1
  /\ lastWrite = None
  /\ unhandled = FALSE
  /\ sinceChange = 0 /\ burstLen = 2 /\ burstWrites = 0
  /\ UiAtMount
  /\ StoreAbsent

\* the collections the App is started with: nothing, or two videos and a
\* playlist of an earlier session
UiLibraries ==
  {[videos |-> <<>>, playlists |-> <<>>],
   [videos |-> <<VideoA, VideoB>>,
    playlists |-> <<NewPlaylist("Old", "", <<VideoA, VideoB>>, 1)>>]}

InitUi == \E l \in UiLibraries : Started(l.videos, l.playlists)

\* collection, selection, creation and editor
NextUi ==
  \/ handleVideoAdd
  \/ handleVideoSelect
  \/ handleVideoDelete
  \/ handleCreate
  \/ openEditor
  \/ closeEditor
  \/ handleDragEnd
  \/ handleRemove
  \/ handleSave

SpecUi == InitUi /\ [][NextUi]_vars

\* selection, creation and deletion of playlists while the clock goes on
NextCreate ==
  \/ handleVideoSelect
  \/ handleVideoDeselect
  \/ ClockTick
  \/ handleCreate
  \/ handleDeletePlaylist
  \/ DeleteSettles

SpecCreate == InitUi /\ [][NextCreate]_vars

\* the collections the player is exercised with
PlayLibraries ==
  {[videos |-> <<VideoA, VideoB>>,
    playlists |-> <<NewPlaylist("Old", "", <<VideoA, VideoB>>, 1),
                    NewPlaylist("One", "", <<VideoB>>, 2)>>]}

InitPlay == \E l \in PlayLibraries : Started(l.videos, l.playlists)

\* player, editor and deletions
NextPlay ==
  \/ handleVideoPlay
  \/ handlePlaylistPlay
  \/ handleNext
  \/ handlePrevious
  \/ onClose
  \/ handleVideoDelete
  \/ openEditor
  \/ closeEditor
  \/ handleDragEnd
  \/ handleRemove
  \/ handleSave

SpecPlay == InitPlay /\ [][NextPlay]_vars

\* player and deletion of playlists
NextDrop ==
  \/ handleVideoPlay
  \/ handlePlaylistPlay
  \/ handleNext
  \/ handlePrevious
  \/ onClose
  \/ onEnded
  \/ handleDeletePlaylist
  \/ DeleteSettles

SpecDrop == InitPlay /\ [][NextDrop]_vars

\* a playlist of three videos
EndLibraries ==
  {[videos |-> <<VideoA, VideoB, VideoC>>,
    playlists |-> <<NewPlaylist("Trio", "", <<VideoA, VideoB, VideoC>>, 1)>>]}

InitEnd == \E l \in EndLibraries : Started(l.videos, l.playlists)

\* the player with its buttons and the end of a video, and the editor
NextEnd ==
  \/ handleVideoPlay
  \/ handlePlaylistPlay
  \/ handleNext
  \/ handlePrevious
  \/ onEnded
  \/ onClose
  \/ openEditor
  \/ closeEditor
  \/ handleDragEnd
  \/ handleRemove
  \/ handleSave

SpecEnd == InitEnd /\ [][NextEnd]_vars

\* player, editor and deletion of videos, with the end of a video
NextAuto ==
  \/ NextPlay
  \/ onEnded

SpecAuto == InitPlay /\ [][NextAuto]_vars

\* ------------------------------------------ the App and the store together

\* the GET of loadRemote is answered by onRequestGet from the database, or
\* the fetch fails
GetArrives ==
  \E reply \in {[kind |-> "network_error"]}
                \cup {[kind |-> "response", ok |-> TRUE, json |-> b] : b \in GetBodies(db)} :
    LoadSettlesWith(reply)

\* the PUT of the last saveRemote reaches onRequestPut, whose answer
\* settles the fetch, or the fetch fails
PutArrives ==
  /\ lastWrite # None /\ lastWrite.outcome = "pending"
  /\ \/ /\ db' = PutOutcome(db, lastWrite.body).db
        /\ lastWrite' =
             [lastWrite EXCEPT !.outcome =
                IF PutOutcome(db, lastWrite.body).resp.status = 200
                THEN "ok" ELSE "http_error"]
        /\ unhandled' = (unhandled \/ saveRemoteSettled(lastWrite'.outcome) = "rejected")
     \/ /\ lastWrite' = [lastWrite EXCEPT !.outcome = "network_error"]
        /\ unhandled' = (unhandled \/ saveRemoteSettled("network_error") = "rejected")
        /\ UNCHANGED db
  /\ UNCHANGED <<dbBefore, lastPut, lastResp, lastGet, putRun, getRun>>
  /\ UNCHANGED <<videos, playlists, mounted, load, remote, timers, t, mirror,
                 sinceChange, burstLen, burstWrites, uiVars>>

NextSync ==
  \/ GetArrives
  \/ handleVideoAdd
  \/ handleVideoDelete
  \/ Tick
  \/ TimerFires
  \/ PutArrives

SpecSync == InitApp /\ [][NextSync]_vars

\* saveRemote of the other copy of the snapshot module
saveRemoteReplace(vs, ps) ==
  [version |-> 1, mode |-> "replace", videos |-> vs, playlists |-> ps]

\* the callback of the save effect's timer in a build with that copy
TimerFiresReplace ==
  /\ \E tm \in timers :
       /\ tm.remaining = 0
       /\ timers' = timers \ {tm}
       /\ lastWrite' = [body |-> saveRemoteReplace(tm.videos, tm.playlists),
                        outcome |-> "pending"]
       /\ mirror' = MirrorBlob(tm.videos, tm.playlists)
  /\ burstWrites' = Min(2, burstWrites + 1)
  /\ UNCHANGED <<videos, playlists, mounted, load, remote, t, unhandled,
                 sinceChange, burstLen, storeVars, uiVars>>

\* the App mounts with nothing in its useLocalStorage keys while the store
\* holds the library of an earlier session
InitRace ==
  /\ videos = <<>> /\ playlists = <<>>
  /\ mirror \in MirrorsAtStart
  /\ mounted = TRUE
  /\ load = "loading"
  /\ remote = None
  /\ t = 0
  /\ timers = {[id |-> 0, remaining |-> Delay, videos |-> <<>>, playlists |-> <<>>]}
  /\ lastWrite = None
  /\ unhandled = FALSE
  /\ sinceChange = 0
  /\ burstLen = 1
  /\ burstWrites = 0
  /\ UiAtMount
  /\ db = StoreFull /\ dbBefore = StoreFull
  /\ lastPut = None /\ lastResp = None /\ lastGet = None
  /\ putRun = None /\ getRun = None

\* the start: the GET of the load effect, the timers of the save effect
\* and their PUTs
NextRace ==
  \/ GetArrives
  \/ Tick
  \/ TimerFiresReplace
  \/ PutArrives

SpecRace == InitRace /\ [][NextRace]_vars

\* the App mounts with nothing in its useLocalStorage keys
InitFlight == InitApp /\ videos = <<>> /\ playlists = <<>>

\* videos are added while the GET of the load effect is in flight and after
NextFlight ==
  \/ LoadSettles
  \/ handleVideoAdd
  \/ Tick
  \/ TimerFires
  \/ saveRemoteSettles

SpecFlight == InitFlight /\ [][NextFlight]_vars

\* DELETE /api/playlists/:id: the ordering rows of the playlist are deleted,
\* then its row; a statement that throws ends the handler with status 500
\* and leaves what the statements before it have done
DeleteOutcomes(d, id) ==
  IF id = ""
  THEN {[db |-> d, status |-> 400]}
  ELSE LET unmapped == [d EXCEPT !.playlist_videos = {r \in @ : r.playlist_id # id}]
       IN  {[db |-> [unmapped EXCEPT !.playlists = {r \in @ : r.id # id}], status |-> 200],
            [db |-> unmapped, status |-> 500],
            [db |-> d, status |-> 500]}

\* the DELETE of a call of handleDeletePlaylist reaches onRequestDelete
DeleteArrives ==
  /\ \E call \in deletes : \E o \in DeleteOutcomes(db, call.id) :
       /\ ~Has(call, "status")
       /\ db' = o.db
       /\ deletes' = (deletes \ {call})
                      \cup {[id |-> call.id, playing |-> call.playing, status |-> o.status]}
  /\ UNCHANGED <<dbBefore, lastPut, lastResp, lastGet, putRun, getRun, appVars>>
  /\ UNCHANGED <<selectedVideos, playVars, editorVars, now, lastDelete, lastOp>>

\* the answer of onRequestDelete reaches the call, or the fetch fails, and
\* handleDeletePlaylist resumes
DeleteAnswered ==
  /\ mounted
  /\ \E call \in deletes :
       \E fate \in {"network_error"} \cup
                    (IF Has(call, "status")
                     THEN {IF call.status = 200 THEN "ok" ELSE "http_error"} ELSE {}) :
         LET r == AfterDelete(call, fate, playlists, Playback)
         IN  /\ deletes' = deletes \ {call}
             /\ lastDelete' = [fate |-> fate, id |-> call.id]
             /\ SetPlayback(r.play)
             /\ IF r.changed
                THEN Commit(videos, r.playlists)
                ELSE UNCHANGED <<videos, playlists, timers, t, mirror, sinceChange,
                                 burstLen, burstWrites>>
  /\ lastOp' = None
  /\ CommitOnly
  /\ UNCHANGED <<selectedVideos, editorVars, now>>

\* the App a moment after a change of its library, the store holding the
\* library as the write before that change left it
InitGone ==
  /\ \E l \in PlayLibraries :
       /\ videos = l.videos /\ playlists = l.playlists
       /\ mirror = MirrorBlob(l.videos, l.playlists)
       /\ timers = {[id |-> 1, remaining |-> Delay, videos |-> l.videos,
                     playlists |-> l.playlists]}
       /\ db = PutOutcome(EmptyDb, saveRemote(l.videos, l.playlists)).db
  /\ mounted = TRUE
  /\ load = "remote"
  /\ remote = [kind |-> "network_error"]
  /\ t = 1
  /\ lastWrite = None
  /\ unhandled = FALSE
  /\ sinceChange = 0 /\ burstLen = 2 /\ burstWrites = 0
  /\ UiAtMount
  /\ dbBefore = EmptyDb /\ lastPut = None /\ lastResp = None /\ lastGet = None
  /\ putRun = None /\ getRun = None

\* the deletion of playlists and the debounced writes
NextGone ==
  \/ handleDeletePlaylist
  \/ DeleteArrives
  \/ DeleteAnswered
  \/ Tick
  \/ TimerFires
  \/ PutArrives

SpecGone == InitGone /\ [][NextGone]_vars

\* ------------------------------ a GET and a PUT between their statements

\* the INSERTs into playlist_videos of one payload entry, in the order the
\* loop awaits them
RECURSIVE MappingInserts(_, _, _)
MappingInserts(pid, refs, pos) ==
  IF refs = <<>> THEN <<>>
  ELSE IF RefId(Head(refs)) = "" THEN MappingInserts(pid, Tail(refs), pos)
  ELSE <<[op |-> "insert_mapping",
          row |-> [playlist_id |-> pid, video_id |-> RefId(Head(refs)),
                   position |-> pos]]>>
         \o MappingInserts(pid, Tail(refs), pos + 1)

\* merge, videos loop: the statements it awaits one after the other
RECURSIVE VideoStatements(_)
VideoStatements(vs) ==
  IF vs = <<>> THEN <<>>
  ELSE IF ~HasId(Head(vs)) THEN VideoStatements(Tail(vs))
  ELSE <<[op |-> "insert_or_ignore", tbl |-> "videos", row |-> VideoRow(Head(vs))],
         [op |-> "update", tbl |-> "videos", row |-> VideoRow(Head(vs))]>>
         \o VideoStatements(Tail(vs))

\* merge, playlists loop: the statements it awaits one after the other
RECURSIVE PlaylistStatements(_)
PlaylistStatements(ps) ==
  IF ps = <<>> THEN <<>>
  ELSE IF ~HasId(Head(ps)) THEN PlaylistStatements(Tail(ps))
  ELSE <<[op |-> "insert_or_ignore", tbl |-> "playlists", row |-> PlaylistRow(Head(ps))],
         [op |-> "update", tbl |-> "playlists", row |-> PlaylistRow(Head(ps))]>>
         \o (IF Has(Head(ps), "videos")
             THEN <<[op |-> "delete_mapping", pid |-> Head(ps).id]>>
                    \o MappingInserts(Head(ps).id, Head(ps).videos, 0)
             ELSE <<>>)
         \o PlaylistStatements(Tail(ps))

\* what the PUT handler awaits after the fuse: db.batch(batch) in replace
\* mode, the statements of the two loops in merge mode
Statements(body) ==
  IF ModeOf(body) = "replace"
  THEN <<[op |-> "batch", videos |-> ArrayOf(body, "videos"),
          playlists |-> ArrayOf(body, "playlists")]>>
  ELSE VideoStatements(ArrayOf(body, "videos"))
         \o PlaylistStatements(ArrayOf(body, "playlists"))

\* the database after one awaited statement
Run(d, st) ==
  IF st.op = "batch" THEN Replace(d, st.videos, st.playlists).db
  ELSE IF st.op = "insert_or_ignore"
       THEN [d EXCEPT ![st.tbl] = InsertOrIgnore(@, st.row)]
  ELSE IF st.op = "update"
       THEN [d EXCEPT ![st.tbl] = UpdateById(@, st.row)]
  ELSE IF st.op = "delete_mapping"
       THEN [d EXCEPT !.playlist_videos = {r \in @ : r.playlist_id # st.pid}]
  ELSE [d EXCEPT !.playlist_videos = @ \cup {st.row}]

\* the snapshots the client's save sends while the store holds StoreFull:
\* the playlist of the store with its two videos swapped, and a library that
\* has one video and another playlist
PlaylistPSwapped ==
  [id |-> "p", name |-> "Mix", description |-> "d", videos |-> <<VideoB, VideoA>>,
   createdAt |-> "2024-02-01", thumbnail |-> "a.jpg"]

ConcBodies ==
  {saveRemote(<<VideoA, VideoB>>, <<PlaylistPSwapped>>),
   saveRemoteReplace(<<VideoA, VideoB>>, <<PlaylistPSwapped>>),
   saveRemote(<<VideoB>>, <<PlaylistQ>>),
   saveRemoteReplace(<<VideoB>>, <<PlaylistQ>>),
   saveRemote(<<>>, <<>>)}

InitConc ==
  /\ AppAbsent
  /\ db = StoreFull /\ dbBefore = StoreFull
  /\ lastPut = None /\ lastResp = None /\ lastGet = None
  /\ putRun = None /\ getRun = None

\* onRequestPut up to its first write: the body is parsed and the fuse is
\* passed (or the request is answered by it)
PutBegins ==
  /\ putRun = None /\ lastPut = None
  /\ \E body \in ConcBodies :
       /\ dbBefore' = db
       /\ IF FuseApplies(body)
          THEN /\ lastPut' = body
               /\ lastResp' = PutOutcome(db, body).resp
               /\ putRun' = [body |-> body, todo |-> <<>>, answered |-> TRUE]
          ELSE /\ putRun' = [body |-> body, todo |-> Statements(body), answered |-> FALSE]
               /\ UNCHANGED <<lastPut, lastResp>>
  /\ UNCHANGED <<db, lastGet, getRun, appVars, uiVars>>

\* one awaited statement of the PUT
PutStatement ==
  /\ putRun # None /\ putRun.todo # <<>>
  /\ db' = Run(db, Head(putRun.todo))
  /\ putRun' = [putRun EXCEPT !.todo = Tail(@)]
  /\ UNCHANGED <<dbBefore, lastPut, lastResp, lastGet, getRun, appVars, uiVars>>

\* the PUT answers
PutEnds ==
  /\ putRun # None /\ putRun.todo = <<>> /\ ~putRun.answered
  /\ putRun' = [putRun EXCEPT !.answered = TRUE]
  /\ lastPut' = putRun.body
  /\ lastResp' = PutOutcome(dbBefore, putRun.body).resp
  /\ UNCHANGED <<db, dbBefore, lastGet, getRun, appVars, uiVars>>

\* onRequestGet, SELECT ... FROM videos
GetVideos ==
  /\ getRun = None /\ lastGet = None
  /\ getRun' = [videos |-> db.videos, listed |-> FALSE, todo |-> {}, out |-> {}]
  /\ UNCHANGED <<db, dbBefore, lastPut, lastResp, lastGet, putRun, appVars, uiVars>>

\* onRequestGet, SELECT ... FROM playlists
GetPlaylists ==
  /\ getRun # None /\ ~getRun.listed
  /\ getRun' = [getRun EXCEPT !.listed = TRUE, !.todo = db.playlists]
  /\ UNCHANGED <<db, dbBefore, lastPut, lastResp, lastGet, putRun, appVars, uiVars>>

\* onRequestGet, the loop over the playlists: the JOIN of one playlist
GetJoin ==
  /\ getRun # None /\ getRun.listed
  /\ \E p \in getRun.todo :
       getRun' = [getRun EXCEPT
                    !.todo = @ \ {p},
                    !.out = @ \cup {[id |-> p.id, name |-> p.name,
                                     description |-> p.description,
                                     createdAt |-> p.createdAt,
                                     thumbnail |-> p.thumbnail,
                                     videos |-> JoinedVideos(db, p.id)]}]
  /\ UNCHANGED <<db, dbBefore, lastPut, lastResp, lastGet, putRun, appVars, uiVars>>

\* onRequestGet answers
GetEnds ==
  /\ getRun # None /\ getRun.listed /\ getRun.todo = {} /\ lastGet = None
  /\ lastGet' = [status |-> 200, version |-> 1, videos |-> getRun.videos,
                 playlists |-> getRun.out]
  /\ UNCHANGED <<db, dbBefore, lastPut, lastResp, putRun, getRun, appVars, uiVars>>

NextConc ==
  \/ PutBegins \/ PutStatement \/ PutEnds
  \/ GetVideos \/ GetPlaylists \/ GetJoin \/ GetEnds

SpecConc == InitConc /\ [][NextConc]_vars

\* ================================================== the store's properties

PutAnswered == lastPut # None

\* the payload's array f is empty or missing
NoItems(body, f) == ~Has(body, f) \/ body[f] = <<>>

EmptyPayload(body) == NoItems(body, "videos") /\ NoItems(body, "playlists")

ExplicitReplace(body) == Has(body, "mode") /\ body.mode = "replace"

HoldsRows(d) == d.videos # {} \/ d.playlists # {}

IgnoredAnswer(r) == Has(r, "ignored") /\ r.ignored /\ Has(r, "ok") /\ ~r.ok

\* C1: a PUT whose mode is not 'replace' and whose videos and playlists are
\* both empty or missing, sent while the store holds a videos or playlists
\* row, changes no row and is answered ok:false, ignored:true.
C1_FuseIgnoresEmptyMerge ==
  (PutAnswered /\ ~ExplicitReplace(lastPut) /\ EmptyPayload(lastPut) /\ HoldsRows(dbBefore))
    => (db = dbBefore /\ IgnoredAnswer(lastResp))

C1_Witness ==
  /\ PutAnswered /\ ~Has(lastPut, "mode") /\ ~Has(lastPut, "videos")
  /\ dbBefore.playlist_videos # {}
  /\ IgnoredAnswer(lastResp)

\* C2 as stated: a replace-mode PUT with empty videos and playlists, sent
\* while the store holds rows, deletes nothing and gets a no-op answer.
C2_FuseRejectsEmptyReplace ==
  (PutAnswered /\ ExplicitReplace(lastPut) /\ EmptyPayload(lastPut) /\ HoldsRows(dbBefore))
    => (db = dbBefore /\ (IgnoredAnswer(lastResp) \/ Has(lastResp, "nochange")))

\* C2 amended: the fuse rejects an empty payload only when the mode is not
\* explicitly 'replace'; an explicit replace with empty videos and
\* playlists is carried out: every row is deleted, the answer is ok:true,
\* mode:'replace'.
C2_FuseOnlyWithoutExplicitReplace ==
  PutAnswered =>
    /\ IgnoredAnswer(lastResp) =>
         (~ExplicitReplace(lastPut) /\ EmptyPayload(lastPut)
            /\ HoldsRows(dbBefore) /\ db = dbBefore)
    /\ (ExplicitReplace(lastPut) /\ EmptyPayload(lastPut)) =>
         (db = EmptyDb /\ lastResp = [status |-> 200, ok |-> TRUE, mode |-> "replace"])

C2_Witness ==
  /\ PutAnswered /\ ExplicitReplace(lastPut) /\ EmptyPayload(lastPut)
  /\ dbBefore.videos # {} /\ dbBefore.playlists # {} /\ dbBefore.playlist_videos # {}
  /\ db = EmptyDb

\* the ordering rows of playlist pid, as the list of video ids by position,
\* provided the positions are exactly 0..n-1 (<<"gap">> otherwise)
Ordering(d, pid) ==
  LET rows == {r \in d.playlist_videos : r.playlist_id = pid}
      n == Cardinality(rows)
  IN  IF \A i \in 0..(n - 1) : \E r \in rows : r.position = i
      THEN [i \in 1..n |-> (CHOOSE r \in rows : r.position = i - 1).video_id]
      ELSE <<"gap">>

\* the ids a payload list of references names, in order
RECURSIVE NamedIds(_)
NamedIds(refs) ==
  IF refs = <<>> THEN <<>>
  ELSE LET h == Head(refs)
           id == IF Has(h, "string") THEN h.string ELSE IF Has(h, "id") THEN h.id ELSE ""
       IN  IF id = "" THEN NamedIds(Tail(refs)) ELSE <<id>> \o NamedIds(Tail(refs))

\* the payload's entries for playlist pid that carry a videos field
EntriesWithVideos(body, pid) ==
  IF Has(body, "playlists")
  THEN {i \in DOMAIN body.playlists :
          LET e == body.playlists[i]
          IN  Has(e, "id") /\ e.id = pid /\ Has(e, "videos")}
  ELSE {}

\* C3: after a merge-mode PUT, every playlist of the store has exactly the
\* ordering of its payload entry's videos list (the ids it names, in order,
\* at positions 0..n-1; the last entry counts if the payload repeats the
\* playlist) when such an entry with a videos field exists, and the
\* ordering it had before otherwise.
C3_MergeRewritesOnlyIncluded ==
  (PutAnswered /\ ~ExplicitReplace(lastPut)) =>
    \A p \in db.playlists :
      LET with == EntriesWithVideos(lastPut, p.id)
      IN  IF with # {} /\ ~IgnoredAnswer(lastResp)
          THEN LET last == CHOOSE i \in with : \A j \in with : j <= i
               IN  Ordering(db, p.id) = NamedIds(lastPut.playlists[last].videos)
          ELSE {r \in db.playlist_videos : r.playlist_id = p.id}
                 = {r \in dbBefore.playlist_videos : r.playlist_id = p.id}

\* P1 = "p" is rewritten with a two-item list, P2 = "q" is omitted and
\* keeps its row
C3_Witness ==
  /\ PutAnswered /\ ~ExplicitReplace(lastPut)
  /\ EntriesWithVideos(lastPut, "p") # {} /\ EntriesWithVideos(lastPut, "q") = {}
  /\ Ordering(dbBefore, "p") = <<"a">>
  /\ Ordering(db, "p") = <<"b", "a">>
  /\ Ordering(db, "q") = <<"b">>

\* the body savePlaylistMapping sends for playlist pid
IsMappingWrite(body, pid) ==
  /\ DOMAIN body = {"version", "mode", "playlists"}
  /\ body.mode = "merge"
  /\ Len(body.playlists) = 1
  /\ DOMAIN body.playlists[1] = {"id", "videos"}
  /\ body.playlists[1].id = pid

\* C4: a merge-mode PUT whose payload is only playlists:[{id:P, videos}]
\* changes no videos row, no row of another playlist and, for a stored P,
\* none of its name, description, createdAt and thumbnail.
C4_MappingWriteTouchesOnlyOrdering ==
  \A pid \in {"p", "q"} :
    (PutAnswered /\ IsMappingWrite(lastPut, pid)) =>
      /\ db.videos = dbBefore.videos
      /\ {r \in db.playlists : r.id # pid} = {r \in dbBefore.playlists : r.id # pid}
      /\ {r \in db.playlist_videos : r.playlist_id # pid}
           = {r \in dbBefore.playlist_videos : r.playlist_id # pid}
      /\ \A r \in dbBefore.playlists : r.id = pid => r \in db.playlists

\* the snapshot of a PUT body is one the client can hold: ids present and
\* distinct, playlists referring to videos of the snapshot only
WellFormedSnapshot(body) ==
  /\ Has(body, "videos") /\ Has(body, "playlists")
  /\ \A i \in DOMAIN body.videos : Has(body.videos[i], "id") /\ body.videos[i].id # ""
  /\ \A i, j \in DOMAIN body.videos : body.videos[i].id = body.videos[j].id => i = j
  /\ \A i \in DOMAIN body.playlists :
       /\ Has(body.playlists[i], "id") /\ body.playlists[i].id # ""
       /\ Has(body.playlists[i], "videos")
       /\ Len(NamedIds(body.playlists[i].videos)) = Len(body.playlists[i].videos)
       /\ \A k \in DOMAIN body.playlists[i].videos :
            \E n \in DOMAIN body.videos :
              body.videos[n].id = NamedIds(body.playlists[i].videos)[k]
  /\ \A i, j \in DOMAIN body.playlists : body.playlists[i].id = body.playlists[j].id => i = j

Ids(rows) == {r.id : r \in rows}

VideoColumns == {"title", "thumbnail", "duration", "channelTitle", "publishedAt"}
PlaylistColumns == {"name", "description", "createdAt", "thumbnail"}

\* C5: after a successful replace-mode PUT of a snapshot, a GET returns
\* exactly the snapshot's videos and playlists (one per id, the stored
\* columns as sent, '' for a missing one), each playlist with the same
\* video ids in the same order, and nothing that was stored before; an
\* empty snapshot leaves the store empty.
C5_ReplaceThenGet ==
  (PutAnswered /\ ExplicitReplace(lastPut) /\ WellFormedSnapshot(lastPut) /\ lastGet # None) =>
    /\ lastResp = [status |-> 200, ok |-> TRUE, mode |-> "replace"]
    /\ Cardinality(lastGet.videos) = Len(lastPut.videos)
    /\ \A i \in DOMAIN lastPut.videos :
         \E v \in lastGet.videos :
           /\ v.id = lastPut.videos[i].id
           /\ \A c \in VideoColumns :
                v[c] = (IF Has(lastPut.videos[i], c) THEN lastPut.videos[i][c] ELSE "")
    /\ Cardinality(lastGet.playlists) = Len(lastPut.playlists)
    /\ \A i \in DOMAIN lastPut.playlists :
         \E p \in lastGet.playlists :
           /\ p.id = lastPut.playlists[i].id
           /\ \A c \in PlaylistColumns :
                p[c] = (IF Has(lastPut.playlists[i], c) THEN lastPut.playlists[i][c] ELSE "")
           /\ [k \in DOMAIN p.videos |-> p.videos[k].id]
                = NamedIds(lastPut.playlists[i].videos)
    /\ (lastPut.videos = <<>> /\ lastPut.playlists = <<>>) => db = EmptyDb

\* a two-playlist snapshot read back over a store that held other rows
C5_Witness ==
  /\ PutAnswered /\ ExplicitReplace(lastPut) /\ WellFormedSnapshot(lastPut)
  /\ lastGet # None
  /\ Len(lastPut.videos) = 2 /\ Len(lastPut.playlists) = 2
  /\ \E p \in lastGet.playlists : Len(p.videos) = 2 /\ p.videos[1].id = "b"
  /\ \E r \in dbBefore.videos : r \notin db.videos
  /\ \E r \in dbBefore.playlist_videos : r \notin db.playlist_videos

\* ================================================== the App's properties

LoadStep == load = "loading" /\ load' # "loading"

IsSnapshot(rem) == rem # None /\ Has(rem, "videos") /\ Has(rem, "playlists")

NonEmptySnapshot(rem) ==
  IsSnapshot(rem) /\ (Len(rem.videos) > 0 \/ Len(rem.playlists) > 0)

AbsentOrEmpty(rem) ==
  rem = None \/ (IsSnapshot(rem) /\ Len(rem.videos) = 0 /\ Len(rem.playlists) = 0)

WritePending(vs, ps) ==
  \E tm \in timers' :
    tm.id = t' /\ tm.remaining = Delay /\ tm.videos = vs /\ tm.playlists = ps

\* C6: when the load effect ends and loadRemote gave a snapshot with at
\* least one video or playlist, videos and playlists are that snapshot and
\* a write of it to the mirror is pending; the load ends in the mirror
\* branch only if the remote snapshot was null or empty and a mirror could
\* be read, it does so whenever both are the case, and then videos and
\* playlists are the mirror's; once no write is pending after a remote
\* adoption the mirror holds the current state
C6_RemoteFirst ==
  [][ /\ LoadStep =>
           /\ NonEmptySnapshot(loadRemote(remote')) =>
                /\ load' = "remote"
                /\ videos' = loadRemote(remote').videos
                /\ playlists' = loadRemote(remote').playlists
                /\ WritePending(videos', playlists')
           /\ load' = "mirror" =>
                /\ AbsentOrEmpty(loadRemote(remote'))
                /\ readMirrorFromLocalStorage(mirror) # None
                /\ videos' = mirror.videos
                /\ playlists' = mirror.playlists
           /\ (/\ AbsentOrEmpty(loadRemote(remote'))
               /\ readMirrorFromLocalStorage(mirror) # None) => load' = "mirror"
      /\ (load' = "remote" /\ mounted' /\ timers' = {}) =>
           mirror' = MirrorBlob(videos', playlists')
    ]_vars

\* C6 witness: the remote snapshot with playlist p was adopted and the
\* mirror has been overwritten with it
C6_Witness ==
  /\ load = "remote"
  /\ NonEmptySnapshot(loadRemote(remote))
  /\ videos = loadRemote(remote).videos
  /\ playlists = loadRemote(remote).playlists
  /\ Len(playlists) = 1 /\ playlists[1].id = "p"
  /\ mirror = MirrorBlob(videos, playlists)
  /\ timers = {}

Malformed(reply) ==
  /\ reply.kind = "response" /\ reply.ok /\ Has(reply, "json")
  /\ ~Has(reply.json, "videos") \/ ~Has(reply.json, "playlists")

\* C7: a 200 answer to the GET that lacks the videos or the playlists
\* array is taken as no data: the App stays mounted and a stored mirror is
\* adopted, so no exception has ended the load before the mirror is read
C7_MalformedFallsBackToMirror ==
  [][ (LoadStep /\ Malformed(remote')) =>
        /\ mounted'
        /\ readMirrorFromLocalStorage(mirror) # None =>
             /\ load' = "mirror"
             /\ videos' = mirror.videos
             /\ playlists' = mirror.playlists
    ]_vars

WriteStep == burstWrites' = burstWrites + 1

\* C8: at most one timer of the save effect is pending; while the App is
\* mounted the write for the last change is either pending or has been
\* issued, never both and never twice; a write is issued only Delay ms
\* after the last change and its body is the videos and playlists of that
\* moment
C8_DebounceCoalesces ==
  [][ /\ Cardinality(timers') <= 1
      /\ burstWrites' <= 1
      /\ mounted' => ((timers' = {}) <=> (burstWrites' = 1))
      /\ WriteStep =>
           /\ burstWrites = 0
           /\ sinceChange = Delay
           /\ lastWrite'.body = saveRemote(videos, playlists)
           /\ lastWrite'.body = saveRemote(videos', playlists')
    ]_vars

\* C8 witness: changes less than Delay apart were followed by one write,
\* whose body is the current state
C8_Witness ==
  /\ mounted /\ load = "none"
  /\ burstLen = 2 /\ burstWrites = 1
  /\ timers = {}
  /\ Len(videos) = 2
  /\ lastWrite.body = saveRemote(videos, playlists)

ChangeStep == mounted' /\ (videos' # videos \/ playlists' # playlists)

\* C9 as stated: every change of videos or playlists is in the mirror at
\* once
C9_MirrorUpdatedImmediately ==
  [][ ChangeStep => mirror' = MirrorBlob(videos', playlists') ]_vars

\* C9: a change of videos or playlists leaves the mirror as it is and
\* leaves a timer of Delay ms pending; the mirror is written only by that
\* timer's callback, Delay ms after the last change, in the same step as
\* the remote write and with the same videos and playlists, which are
\* the current ones
C9_MirrorWrittenWithDebouncedPush ==
  [][ /\ ChangeStep => (mirror' = mirror /\ WritePending(videos', playlists'))
      /\ mirror' # mirror =>
           /\ WriteStep
           /\ sinceChange = Delay
           /\ mirror' = MirrorBlob(videos, playlists)
           /\ lastWrite'.body = saveRemote(mirror'.videos, mirror'.playlists)
    ]_vars

\* C9 witness: Step ms after a change the mirror still holds the state
\* written before it
C9_Witness ==
  /\ mounted /\ load = "none"
  /\ Len(videos) = 2
  /\ Has(mirror, "videos") /\ Len(mirror.videos) < 2
  /\ timers # {} /\ sinceChange = Step

Failed(w) == w # None /\ w.outcome \in {"http_error", "network_error"}

\* C10: when the PUT of saveRemote has failed, no rejection is left
\* unhandled, the mirror holds the videos and playlists of that PUT, and
\* the step in which the failure arrives changes neither videos nor
\* playlists
C10_FailedWriteSwallowed ==
  [][ Failed(lastWrite') =>
        /\ ~unhandled'
        /\ mirror' = MirrorBlob(lastWrite'.body.videos, lastWrite'.body.playlists)
        /\ ~Failed(lastWrite) => (videos' = videos /\ playlists' = playlists)
    ]_vars

\* C10 witness: the PUT of a non-empty state met a network error and the
\* mirror holds that state
C10_Witness ==
  /\ lastWrite # None /\ lastWrite.outcome = "network_error"
  /\ Len(lastWrite.body.videos) > 0
  /\ mirror = MirrorBlob(lastWrite.body.videos, lastWrite.body.playlists)
  /\ videos = lastWrite.body.videos
  /\ ~unhandled

\* ========================================= the App and the store: properties

VideoIds(vs) == [i \in DOMAIN vs |-> vs[i].id]

\* the answer of a GET holds the videos, the playlists and the orderings of
\* a local snapshot
SameLibrary(g, vs, ps) ==
  /\ {v.id : v \in g.videos} = Range(VideoIds(vs))
  /\ {q.id : q \in g.playlists} = Range(VideoIds(ps))
  /\ \A q \in g.playlists : \A k \in DOMAIN ps :
       ps[k].id = q.id => VideoIds(q.videos) = VideoIds(ps[k].videos)

\* no write is scheduled and the last PUT, which carried the current
\* videos and playlists, has been answered with a 2xx status
Settled ==
  /\ mounted /\ timers = {}
  /\ lastWrite # None /\ lastWrite.outcome = "ok"
  /\ lastWrite.body = saveRemote(videos, playlists)

\* C11: once the last scheduled write has fired and its PUT has succeeded,
\* a GET returns the videos and playlists of the App, with every
\* playlist's order
C11_RemoteEqualsLocalOnceSettled ==
  Settled => SameLibrary(GetOutcome(db), videos, playlists)

\* ------------------------------------------- properties of the App's handlers

PlaylistIds(ps) == {ps[k].id : k \in DOMAIN ps}

\* a call of handleDeletePlaylist resumes in this step
DeleteResumes == \E call \in deletes : deletes' = deletes \ {call}

PlaybackKept ==
  /\ currentVideo' = currentVideo /\ currentPlaylist' = currentPlaylist
  /\ currentIndex' = currentIndex /\ isPlayerOpen' = isPlayerOpen

C12_Step ==
  /\ (deletes' # deletes /\ ~DeleteResumes) => (playlists' = playlists /\ PlaybackKept)
  /\ (DeleteResumes /\ lastDelete'.fate # "ok") => (playlists' = playlists /\ PlaybackKept)
  /\ \A id \in PlaylistIds(playlists) \ PlaylistIds(playlists') :
       /\ lastDelete' = [fate |-> "ok"]
       /\ \E call \in deletes : call.id = id /\ deletes' = deletes \ {call}

\* C12: the click that deletes a playlist changes neither the playlists nor
\* the playback; if the DELETE fails or is answered with an error status,
\* playlists and playback stay as they were; a playlist leaves the list
\* only in the step in which its DELETE has been answered with success
C12_DeleteWaitsForRemote == [][C12_Step]_vars

\* a DELETE has failed while the player was playing a playlist, and both
\* playlists are still there
C12_Witness ==
  /\ lastDelete = [fate |-> "network_error"] /\ deletes = {}
  /\ Len(playlists) = 2 /\ currentPlaylist # None /\ isPlayerOpen

\* C13: no two playlists of the collection have the same id, whatever the
\* clock read when they were created and whatever was adopted at the start
C13_PlaylistIdsFresh ==
  \A j, k \in DOMAIN playlists : j # k => playlists[j].id # playlists[k].id

IdSet(vs) == {vs[i].id : i \in DOMAIN vs}

\* C14: every video of every playlist is a video of the collection
C14_PlaylistVideosInCollection ==
  \A k \in DOMAIN playlists : IdSet(playlists[k].videos) \subseteq IdSet(videos)

NoDuplicateIds(vs) == \A i, j \in DOMAIN vs : i # j => vs[i].id # vs[j].id

\* C15: no playlist holds a video id twice, and neither does the selection
\* nor the collection of videos
C15_NoDuplicateIds ==
  /\ NoDuplicateIds(videos)
  /\ NoDuplicateIds(selectedVideos)
  /\ \A k \in DOMAIN playlists : NoDuplicateIds(playlists[k].videos)

\* a playlist has been made from a selection of two videos, and the editor
\* has saved the adopted playlist in the opposite order
C15_Witness ==
  /\ Len(playlists) = 2
  /\ VideoIds(playlists[1].videos) = <<"b", "a">>
  /\ playlists[2].name = "Mix" /\ Len(playlists[2].videos) = 2

KeepsAllBut(before, after, id) == after = SelectSeq(before, LAMBDA v : v.id # id)

C16_Step ==
  \A id \in IdSet(videos) \ IdSet(videos') :
    /\ KeepsAllBut(videos, videos', id)
    /\ KeepsAllBut(selectedVideos, selectedVideos', id)
    /\ DOMAIN playlists' = DOMAIN playlists
    /\ \A k \in DOMAIN playlists :
         /\ KeepsAllBut(playlists[k].videos, playlists'[k].videos, id)
         /\ playlists'[k] = [playlists[k] EXCEPT !.videos = playlists'[k].videos]

\* C16: the step in which a video leaves the collection removes it from
\* the selection and from every playlist, keeps the other videos in their
\* order and keeps every other field of every playlist
C16_CascadeDelete == [][C16_Step]_vars

\* video A has just been deleted and two playlists held it: the adopted
\* one is left with B, the one made from the selection of A is empty
C16_Witness ==
  /\ lastOp # None /\ lastOp.op = "delete"
  /\ VideoIds(videos) = <<"b">>
  /\ Len(playlists) = 2
  /\ VideoIds(playlists[1].videos) = <<"b">>
  /\ playlists[2].name = "Mix" /\ playlists[2].videos = <<>>
  /\ Has(playlists[2], "thumbnail") /\ playlists[2].thumbnail = "a.jpg"

\* the deleted video is the one the player holds
DeletesCurrent(id) ==
  /\ id \in IdSet(videos) \ IdSet(videos')
  /\ currentVideo # None /\ currentVideo.id = id

C17_AdvanceStep ==
  \A id \in IdSet(videos) :
    DeletesCurrent(id) =>
      IF currentPlaylist # None /\ Without(currentPlaylist.videos, id) # <<>>
      THEN /\ currentVideo' # None
           /\ currentVideo'.id \in IdSet(Without(currentPlaylist.videos, id))
           /\ currentPlaylist' # None
      ELSE currentVideo' = None /\ ~isPlayerOpen'

\* C17: deleting the video that is playing moves the player to another item
\* of the current playlist if one remains, and stops it only if none remains
C17_DeleteCurrentAdvances == [][C17_AdvanceStep]_vars

C17_StopStep ==
  \A id \in IdSet(videos) \ IdSet(videos') :
    IF currentVideo # None /\ currentVideo.id = id
    THEN /\ ~isPlayerOpen' /\ currentVideo' = None
         /\ currentPlaylist' = None /\ currentIndex' = None
    ELSE PlaybackKept

\* C17: deleting the video that is playing closes the player and clears the
\* current video, playlist and index, whether or not the current playlist
\* has other items; deleting another video leaves the player as it is
C17_DeleteCurrentStops == [][C17_StopStep]_vars

\* the playing video has just been deleted while its playlist had another
\* item, and the player is closed and cleared
C17_Witness ==
  /\ lastOp = [op |-> "delete", playing |-> TRUE, rest |-> TRUE]
  /\ ~isPlayerOpen /\ currentVideo = None /\ currentPlaylist = None

\* the editor's Save reorders the playlist that is playing, a video being
\* current
SavesPlaying ==
  /\ editing # None /\ editing' = None
  /\ lastOp' # None /\ lastOp'.op = "reorder"
  /\ currentPlaylist # None /\ currentPlaylist.id = editing.id
  /\ currentVideo # None

C18_Step ==
  (SavesPlaying /\ currentVideo.id \in IdSet(items)) =>
    /\ currentIndex' # None
    /\ currentIndex'.index \in 0..(Len(items) - 1)
    /\ items[currentIndex'.index + 1].id = currentVideo.id
    /\ currentVideo' = currentVideo
    /\ isPlayerOpen' = isPlayerOpen
    /\ currentPlaylist' = [currentPlaylist EXCEPT !.videos = items]

\* C18: when the playlist that is playing is reordered and the current video
\* is in the new order, the index becomes the place of that video in the new
\* order, the video and the open player stay, and the player's copy of the
\* playlist takes the new order
C18_ReorderFollowsCurrent == [][C18_Step]_vars

\* B was playing as the second item and is the first after the reorder
C18_Witness ==
  /\ lastOp = [op |-> "reorder", playing |-> TRUE, rest |-> TRUE]
  /\ isPlayerOpen /\ currentVideo # None /\ currentVideo.id = "b"
  /\ currentIndex = [index |-> 0]
  /\ currentPlaylist # None /\ VideoIds(currentPlaylist.videos) = <<"b", "a">>

C19_Step ==
  (SavesPlaying /\ currentVideo.id \notin IdSet(items)) =>
    IF items # <<>>
    THEN currentIndex' = [index |-> 0] /\ currentVideo' = items[1]
    ELSE /\ ~isPlayerOpen' /\ currentPlaylist' = None
         /\ currentVideo' = None /\ currentIndex' = None

\* C19: when the playlist that is playing is reordered and the current video
\* is not in the new order, the player shows the first item of a non-empty
\* new order at index 0, and is closed and cleared of playlist, video and
\* index if the new order is empty
C19_ReorderWithoutCurrent == [][C19_Step]_vars

C21_EndEventsAdvance ==
  (/\ lastOp # None /\ lastOp.op = "ended"
   /\ lastOp.start # None /\ currentPlaylist # None) =>
    LET last == Len(currentPlaylist.videos) - 1
        i == Min(lastOp.start.index + lastOp.k, last)
    IN  /\ currentIndex = [index |-> i]
        /\ currentVideo = currentPlaylist.videos[i + 1]

\* C22: an open player with a current video has a current playlist and an
\* index, and a video played alone is the only item, at index 0, of the
\* playlist the player holds
C22_SinglePlayIsPlaylist ==
  /\ (isPlayerOpen /\ currentVideo # None) =>
       (currentPlaylist # None /\ currentIndex # None)
  /\ (lastOp # None /\ lastOp.op = "play") =>
       /\ currentPlaylist # None /\ VideoIds(currentPlaylist.videos) = <<lastOp.id>>
       /\ currentIndex = [index |-> 0]

\* C22: after a video has been played alone the player is open with that
\* video, without playlist and without index, and handleNext and
\* handlePrevious leave that state as it is
C22_SinglePlayWithoutPlaylist ==
  (lastOp # None /\ lastOp.op = "play") =>
    /\ isPlayerOpen /\ currentVideo # None /\ currentVideo.id = lastOp.id
    /\ currentPlaylist = None /\ currentIndex = None
    /\ NextItem(Playback) = Playback /\ PreviousItem(Playback) = Playback

\* video B has been played alone while a playlist was playing
C22_Witness ==
  /\ lastOp = [op |-> "play", id |-> "b"]
  /\ isPlayerOpen /\ currentVideo = VideoB /\ currentPlaylist = None
  /\ player # None /\ player.currentPlaylist # None

\* C23: there is a YT.Player only while the player is open with a current
\* video
C23_NoLeakedPlayer == player # None => (isPlayerOpen /\ currentVideo # None)

RowIds(rows) == {r.id : r \in rows}

\* C24: while the App starts, the store keeps every video, every playlist
\* and every ordering row it held
C24_StartKeepsRemoteRows ==
  /\ RowIds(StoreFull.videos) \subseteq RowIds(db.videos)
  /\ RowIds(StoreFull.playlists) \subseteq RowIds(db.playlists)
  /\ StoreFull.playlist_videos \subseteq db.playlist_videos

\* C25: the videos added while the GET of the load effect was in flight
\* are in the collection after the load effect has set it
C25_AddedInFlightKept ==
  [][(LoadStep /\ mounted') => IdSet(videos) \subseteq IdSet(videos')]_vars

\* no write is scheduled or in flight and no DELETE is under way
Quiet ==
  /\ timers = {} /\ deletes = {}
  /\ lastWrite # None /\ lastWrite.outcome # "pending"

\* C26: once the DELETE of a playlist has succeeded and the writes have
\* completed, the store has no row and no ordering row of that playlist
C26_DeletedPlaylistStaysDeleted ==
  (/\ Quiet
   /\ lastDelete # None /\ lastDelete.fate = "ok"
   /\ lastDelete.id \notin PlaylistIds(playlists)) =>
    /\ lastDelete.id \notin RowIds(db.playlists)
    /\ \A r \in db.playlist_videos : r.playlist_id # lastDelete.id

\* C27: a GET that runs while a PUT runs answers with the store as it was
\* before the write or as it is after it, never with a mix of the two
C27_GetIsSnapshot ==
  lastGet # None =>
    \/ lastGet = GetOutcome(dbBefore)
    \/ putRun # None /\ lastGet = GetOutcome(PutOutcome(dbBefore, putRun.body).db)

\* C28: a replace-mode PUT that is answered 500 with an error field leaves
\* the three tables exactly as they were before the request
C28_FailedReplaceKeepsStore ==
  (lastPut # None /\ ModeOf(lastPut) = "replace"
     /\ lastResp.status = 500 /\ Has(lastResp, "error"))
    => db = dbBefore

\* a replace-mode PUT has failed on a store that held rows
C28_Witness ==
  /\ lastPut # None /\ ModeOf(lastPut) = "replace"
  /\ lastResp.status = 500 /\ Has(lastResp, "error")
  /\ BatchConflict(ArrayOf(lastPut, "playlists"))
  /\ dbBefore.videos # {} /\ dbBefore.playlists # {} /\ dbBefore.playlist_videos # {}
  /\ db = dbBefore

\* C29: whenever the player is open, the current video is a video of the
\* collection, and the player's copy of the playlist has the same video ids
\* in the same order as the stored playlist of that id
C29_PlaybackShowsStored ==
  isPlayerOpen =>
    /\ currentVideo # None => currentVideo.id \in IdSet(videos)
    /\ currentPlaylist # None =>
         \E k \in DOMAIN playlists :
           /\ playlists[k].id = currentPlaylist.id
           /\ VideoIds(playlists[k].videos) = VideoIds(currentPlaylist.videos)

\* C30: whenever the player has a playlist and an index, the index is a
\* place of that playlist and the current video is the item at that place
C30_IndexAndVideoAgree ==
  (currentPlaylist # None /\ currentIndex # None) =>
    /\ currentIndex.index \in 0..(Len(currentPlaylist.videos) - 1)
    /\ currentVideo = currentPlaylist.videos[currentIndex.index + 1]

====
